---- MODULE Spec2Model ----
(***************************************************************************)
(* A model of train_torch.py of KoGPT2-chatbot: the interactive chat loop  *)
(* KoGPT2Chat.chat with its greedy decoding and its emotion side channel,  *)
(* the __main__ block that starts it, and CharDataset.__getitem__.         *)
(*                                                                         *)
(* Text is a sequence of one-character strings; the special tokens         *)
(* (<usr>, <sys>, </s>, <unused1>) are single elements of such a sequence. *)
(* The two neural networks are external: the logits of the language model  *)
(* at the last position and the class returned by the sentiment classifier *)
(* are drawn from small sets at every call.                                *)
(***************************************************************************)
EXTENDS Integers, Sequences, FiniteSets, TLC

(* ------------------------------ bounds --------------------------------- *)
MaxUtter == 2      \* utterances (non-quit inputs) per chat session
MaxGen == 2        \* tokens appended to one reply
MaxLenBound == 6   \* --max-len ranges over 0..MaxLenBound
MaxQLen == 6       \* tokens of a tokenized question
MaxALen == 6       \* tokens of a tokenized answer

(* --------------------------- program constants ------------------------ *)
U_TKN == "<usr>"
S_TKN == "<sys>"
EOS == "</s>"
MASK == "<unused0>"
SENT == "<unused1>"
PAD == "<pad>"
WB == "▁"
QUIT == <<"q", "u", "i", "t">>
DefaultSent == <<"0">>
EmoLabels == <<"sad", "neutral", "happy", "disgust", "anger", "fear", "surprise">>

(* the values of --sentiment the help text names *)
SentimentValues == {<<"0">>, <<"1">>, <<"2">>}

(* the vocabulary of the language model, in id order *)
Vocab == << <<EOS>>, <<WB, "h">>, <<"i">> >>

(* what the user may type at the prompt *)
InputSamples ==
  { QUIT,
    <<" ", "q", "u", "i", "t", " ">>,
    <<>>,
    <<" ", "q", "u", "i", "t", " ", "h">> }

(* what the sentiment classifier may answer *)
EmoSamples == {0, Len(EmoLabels) - 1}

(* what the language model may score a vocabulary entry *)
ScoreSamples == {0, 1}

(* the readings of the wall clock: a second of the day and a fraction *)
SecSamples == {0, 1}
FracSamples == {0, 1}

ScoreSets == [1..Len(Vocab) -> ScoreSamples]
Clock == [sec : SecSamples, frac : FracSamples]

(* ------------------------------ text helpers --------------------------- *)
IsSpace(c) == c \in {" ", "\t", "\n"}

RECURSIVE LStrip(_)
LStrip(s) == IF s # <<>> /\ IsSpace(Head(s)) THEN LStrip(Tail(s)) ELSE s

RECURSIVE RStrip(_)
RStrip(s) ==
  IF s # <<>> /\ IsSpace(s[Len(s)]) THEN RStrip(SubSeq(s, 1, Len(s) - 1)) ELSE s

(* str.strip() *)
Strip(s) == RStrip(LStrip(s))

(* gen.replace(WB, ' ') *)
ReplaceWB(tok) == [i \in 1..Len(tok) |-> IF tok[i] = WB THEN " " ELSE tok[i]]

Min(S) == CHOOSE m \in S : \A n \in S : m <= n

(* a mis-written argmax: the first index, whatever the scores *)
ArgmaxFirst(sc) == 1

(* torch.argmax over the vocabulary: the first index of a maximal score *)
Argmax(sc) ==
  Min({i \in DOMAIN sc : \A j \in DOMAIN sc : sc[j] <= sc[i]})

(* the text handed to tok.encode at a generation step *)
Prompt(qq, ss, aa) == <<U_TKN>> \o qq \o <<SENT>> \o ss \o <<S_TKN>> \o aa

(* the quit test without the strip *)
IsQuitRaw(q_in) == q_in = QUIT

(* q = q_temp.strip(); q == 'quit' *)
IsQuit(q_in) == Strip(q_in) = QUIT

(* a counter advanced twice *)
IncNumTwice(n) == n + 2

(* num += 1 *)
IncNum(n) == n + 1

(* str(time_record.time())[:8]: the time of day, cut to whole seconds *)
TimeStr(now) == now.sec

(* ------------------------------ chat state ----------------------------- *)
VARIABLES
  pc,          \* "main", "prompt" (waiting in input), "gen", "done", "exit"
  args,        \* the parsed command line: [chat, sentiment]
  sent,        \* the parameter of KoGPT2Chat.chat
  num, time_list, emo_list,
  q_temp, q, a,
  \* the next six describe the reply to the line read last; reading a line
  \* clears them, as nothing reads the old values before they are overwritten
  input_text,  \* the text last encoded and fed to the model
  scores,      \* the logits at the last position of that forward pass
  gen,         \* the token decoded from them
  gens,        \* the tokens appended to a so far
  steps,       \* generation steps taken so far
  reply,       \* what "Simsimi > " printed
  entered,     \* every line typed so far
  readings,    \* every <<time, emotion>> obtained so far
  nPrompt,     \* times "user > " was shown
  nPredict,    \* calls of sentence_predict
  nGenStart,   \* reply generations started
  results      \* arguments of the calls of emotion_predict_result

(* --------------------------- dataset state ----------------------------- *)
VARIABLES
  d_pc,        \* "idle", "returned", "assert"
  max_len, first,
  q_in, a_in,  \* the tokenized question and answer before truncation
  q_toked, a_toked, q_len, a_len,
  token_ids, mask, labels_ids

chatVars == <<pc, args, sent, num, time_list, emo_list, q_temp, q, a,
              input_text, scores, gen, gens, steps, reply, entered, readings,
              nPrompt, nPredict, nGenStart, results>>
dataVars == <<d_pc, max_len, first, q_in, a_in, q_toked, a_toked, q_len, a_len,
              token_ids, mask, labels_ids>>
vars == <<chatVars, dataVars>>

NoScores == [i \in 1..Len(Vocab) |-> 0]

Init ==
  /\ pc = "main"
  /\ args \in [chat : BOOLEAN, sentiment : SentimentValues]
  /\ sent = <<>>
  /\ num = 0 /\ time_list = <<>> /\ emo_list = <<>>
  /\ q_temp = <<>> /\ q = <<>> /\ a = <<>>
  /\ input_text = <<>> /\ scores = NoScores /\ gen = <<>> /\ gens = <<>>
  /\ steps = 0 /\ reply = <<>>
  /\ entered = <<>> /\ readings = <<>>
  /\ nPrompt = 0 /\ nPredict = 0 /\ nGenStart = 0 /\ results = <<>>
  /\ d_pc = "idle" /\ max_len = 0 /\ first = TRUE
  /\ q_in = <<>> /\ a_in = <<>> /\ q_toked = <<>> /\ a_toked = <<>>
  /\ q_len = 0 /\ a_len = 0
  /\ token_ids = <<>> /\ mask = <<>> /\ labels_ids = <<>>

(* if args.chat: model.chat() up to the first input("user > ") *)
Main ==
  /\ pc = "main"
  /\ IF args.chat
       THEN /\ pc' = "prompt"
            /\ sent' = DefaultSent
            /\ nPrompt' = nPrompt + 1
       ELSE /\ pc' = "exit"
            /\ UNCHANGED <<sent, nPrompt>>
  /\ num' = 0 /\ time_list' = <<>> /\ emo_list' = <<>>
  /\ UNCHANGED <<args, q_temp, q, a, input_text, scores, gen, gens, steps,
                 reply, entered, readings, nPredict, nGenStart, results>>
  /\ UNCHANGED dataVars

(* one line read by input("user > "), up to the inner loop or the break *)
Input(line, now, emo) ==
  /\ pc = "prompt"
  /\ q_temp' = line
  /\ q' = Strip(line)
  /\ entered' = Append(entered, line)
  /\ IF IsQuit(line)
       THEN /\ results' = Append(results, <<time_list, emo_list, num>>)
            /\ pc' = "done"
            /\ UNCHANGED <<num, time_list, emo_list, a, gens, steps, readings,
                           nPredict, nGenStart, input_text, scores, gen, reply>>
       ELSE /\ num < MaxUtter
            /\ a' = <<>>
            /\ nPredict' = nPredict + 1
            /\ readings' = Append(readings, <<TimeStr(now), emo>>)
            /\ time_list' = Append(time_list, TimeStr(now))
            /\ emo_list' = Append(emo_list, emo)
            /\ num' = IncNum(num)
            /\ gens' = <<>> /\ steps' = 0
            /\ nGenStart' = nGenStart + 1
            /\ pc' = "gen"
            /\ input_text' = <<>> /\ scores' = NoScores /\ gen' = <<>>
            /\ reply' = <<>>
            /\ UNCHANGED results
  /\ UNCHANGED <<args, sent, nPrompt>>
  /\ UNCHANGED dataVars

(* one pass of the inner while: encode, forward, argmax, test, append *)
GenStep(sc) ==
  /\ pc = "gen"
  /\ LET g == Vocab[Argmax(sc)] IN
       /\ (Len(gens) >= MaxGen => g = <<EOS>>)
       /\ input_text' = Prompt(q, sent, a)
       /\ scores' = sc
       /\ gen' = g
       /\ steps' = steps + 1
       /\ IF g = <<EOS>>
            THEN /\ reply' = Strip(a)
                 /\ pc' = "prompt"
                 /\ nPrompt' = nPrompt + 1
                 /\ UNCHANGED <<a, gens>>
            ELSE /\ a' = a \o ReplaceWB(g)
                 /\ gens' = Append(gens, g)
                 /\ UNCHANGED <<reply, pc, nPrompt>>
  /\ UNCHANGED <<args, sent, num, time_list, emo_list, q_temp, q, entered,
                 readings, nPredict, nGenStart, results>>
  /\ UNCHANGED dataVars

Next ==
  \/ Main
  \/ \E line \in InputSamples, now \in Clock, emo \in EmoSamples :
       Input(line, now, emo)
  \/ \E sc \in ScoreSets : GenStep(sc)

Spec == Init /\ [][Next]_vars

(* ------------------------- CharDataset.__getitem__ --------------------- *)
(* A token is <<text, position>>.  The tokenizer's output for a row is     *)
(* drawn as the first n tokens of a question and the first m of an answer. *)
QTokens(n) == [i \in 1..n |-> <<"q", i>>]
ATokens(m) == [i \in 1..m |-> <<"a", i>>]

(* tokenizer.convert_tokens_to_ids *)
TokenId(t) == <<"id", t>>
ConvertTokensToIds(toks) == [i \in 1..Len(toks) |-> TokenId(toks[i])]
pad_token_id == TokenId(<<PAD, 0>>)

(* [x] * n, the empty list when n <= 0 *)
Repeat(x, n) == [i \in 1..n |-> x]

(* s[-k:] for k >= 0: all of s when k = 0 or k >= len(s) *)
LastK(s, k) ==
  IF k = 0 \/ k >= Len(s) THEN s ELSE SubSeq(s, Len(s) - k + 1, Len(s))

(* s[:n] for n >= 0 *)
FirstN(s, n) == SubSeq(s, 1, IF n < Len(s) THEN n ELSE Len(s))

(* s[1:] *)
Rest(s) == IF s = <<>> THEN <<>> ELSE Tail(s)

(* keeping the whole budget for the question *)
HalfLenWhole(m) == m

(* int(self.max_len/2) for max_len >= 0 *)
HalfLen(m) == m \div 2

(* while len(ids) < max_len: ids += [pad_token_id] *)
PadTo(ids, m) == ids \o Repeat(pad_token_id, m - Len(ids))

(* one call of __getitem__ on a row whose question tokenizes to qt and      *)
(* whose answer tokenizes to at, on a dataset built with max_len = m       *)
GetItem(m, qt, at) ==
  LET ql0 == Len(qt)
      al0 == Len(at)
      over == ql0 + al0 > m
      al1 == m - ql0
      cutq == over /\ al1 <= 0
      qt1 == IF cutq THEN LastK(qt, HalfLen(m)) ELSE qt
      ql1 == Len(qt1)
      al2 == IF cutq THEN m - ql1 ELSE al1
      at1 == IF over THEN FirstN(at, al2) ELSE at
      al3 == Len(at1)
      labels == Repeat(<<MASK, 0>>, ql1) \o Rest(at1)
  IN
  /\ max_len' = m
  /\ q_in' = qt /\ a_in' = at
  /\ IF cutq /\ ~(al2 > 0)
       THEN \* assert a_len > 0 fails before anything is logged or returned
            /\ d_pc' = "assert"
            /\ q_toked' = qt1 /\ q_len' = ql1
            /\ a_toked' = at /\ a_len' = al2
            /\ token_ids' = <<>> /\ mask' = <<>> /\ labels_ids' = <<>>
            /\ UNCHANGED first
       ELSE /\ d_pc' = "returned"
            /\ q_toked' = qt1 /\ q_len' = ql1
            /\ a_toked' = at1 /\ a_len' = al3
            /\ first' = FALSE
            /\ mask' = Repeat(0, ql1) \o Repeat(1, al3)
                         \o Repeat(0, m - ql1 - al3)
            /\ labels_ids' = PadTo(ConvertTokensToIds(labels), m)
            /\ token_ids' = PadTo(ConvertTokensToIds(qt1 \o at1), m)
  /\ UNCHANGED chatVars

NextData ==
  \E m \in 0..MaxLenBound, n \in 1..MaxQLen, k \in 1..MaxALen :
    GetItem(m, QTokens(n), ATokens(k))

SpecData == Init /\ [][NextData]_vars

(* ------------------------------ properties ----------------------------- *)
IsPrefix(s, t) == Len(s) <= Len(t) /\ SubSeq(t, 1, Len(s)) = s
Last(s) == s[Len(s)]
Front(s) == SubSeq(s, 1, Len(s) - 1)
RECURSIVE Concat(_)
Concat(toks) == IF toks = <<>> THEN <<>> ELSE Head(toks) \o Concat(Tail(toks))
ConcatReplaced(toks) == Concat([i \in 1..Len(toks) |-> ReplaceWB(toks[i])])
NonQuit(lines) == {i \in DOMAIN lines : Strip(lines[i]) # QUIT}

(* a generation step of the current utterance has been taken and its       *)
(* utterance is still the current one                                      *)
StepTaken == steps > 0 /\ pc \in {"gen", "prompt"}

(* the tokens that made up a when the last step built its prompt *)
PriorGens == IF gen = <<EOS>> THEN gens ELSE Front(gens)

HighestScoring ==
  \E i \in DOMAIN scores :
    /\ gen = Vocab[i]
    /\ \A j \in DOMAIN scores : scores[j] <= scores[i]

StopsAtFirstEOS ==
  /\ \A i \in DOMAIN gens : gens[i] # <<EOS>>
  /\ pc = "gen" => gen # <<EOS>>
  /\ pc = "prompt" => gen = <<EOS>>

ReplyWithoutEOS ==
  pc = "prompt" => reply = Strip(a) /\ \A i \in DOMAIN reply : reply[i] # EOS

(* C1, as stated: every step of the inner loop takes the highest-scoring   *)
(* token at the last position for the prompt U_TKN + q + SENT + sent +     *)
(* S_TKN + a, a being the concatenation of the tokens generated so far;    *)
(* the loop stops at the first EOS and EOS never reaches the reply.        *)
C1_GreedyPlainConcat ==
  StepTaken =>
    /\ HighestScoring
    /\ a = Concat(gens)
    /\ input_text = Prompt(q, sent, Concat(PriorGens))
    /\ StopsAtFirstEOS
    /\ ReplyWithoutEOS

(* C1, amended: as above, a being the concatenation of the tokens          *)
(* generated so far with every word-boundary mark replaced by a space.     *)
C1_GreedyReplacedConcat ==
  StepTaken =>
    /\ HighestScoring
    /\ a = ConcatReplaced(gens)
    /\ input_text = Prompt(q, sent, ConcatReplaced(PriorGens))
    /\ StopsAtFirstEOS
    /\ ReplyWithoutEOS

(* a reply of two tokens, the first carrying a word-boundary mark, has     *)
(* been completed by an EOS that did not have the only positive score      *)
C1_Witness ==
  /\ pc = "prompt" /\ steps = Len(gens) + 1 /\ Len(gens) >= 2
  /\ gens[1] = <<WB, "h">> /\ gen = <<EOS>>
  /\ \E j \in DOMAIN scores : Vocab[j] # <<EOS>> /\ scores[j] > 0

(* the text between SENT and S_TKN of a prompt *)
SentSegment(text) ==
  LET i == Min({k \in DOMAIN text : text[k] = SENT})
      j == Min({k \in DOMAIN text : k > i /\ text[k] = S_TKN})
  IN SubSeq(text, i + 1, j - 1)

(* C2: started with --chat and --sentiment s, every prompt fed to the      *)
(* model carries s between SENT and S_TKN.                                 *)
C2_PromptCarriesSentiment ==
  (args.chat /\ StepTaken) => SentSegment(input_text) = args.sentiment

(* C3: at every "user > " prompt time_list and emo_list have length num,   *)
(* the number of non-quit utterances entered so far, they hold the         *)
(* timestamp and the emotion of each utterance in order of entry, and      *)
(* they only ever grow by appending.                                       *)
C3_ListsTrackUtterances ==
  /\ [](pc = "prompt" =>
          /\ Len(time_list) = num /\ Len(emo_list) = num
          /\ num = Cardinality(NonQuit(entered))
          /\ Len(readings) = num
          /\ \A i \in 1..num : /\ time_list[i] = readings[i][1]
                               /\ emo_list[i] = readings[i][2])
  /\ [][IsPrefix(time_list, time_list') /\ IsPrefix(emo_list, emo_list')]_vars

(* two utterances with different times and emotions are on the lists *)
C3_Witness ==
  /\ pc = "prompt" /\ num = 2
  /\ time_list[1] # time_list[2] /\ emo_list[1] # emo_list[2]

(* C4: the session ends exactly on a line that strips to quit; that line   *)
(* triggers one emotion_predict_result call on the accumulated lists and   *)
(* num, no further prompt, no classification, no record and no reply;      *)
(* every other line is classified once and starts one reply generation     *)
(* before the next prompt.                                                 *)
C4_QuitEndsSession ==
  /\ [](/\ pc = "done" <=> (entered # <<>> /\ Strip(Last(entered)) = QUIT)
        /\ \A i \in 1..(Len(entered) - 1) : Strip(entered[i]) # QUIT
        /\ results = IF pc = "done" THEN << <<time_list, emo_list, num>> >>
                                    ELSE <<>>
        /\ nPredict = Cardinality(NonQuit(entered))
        /\ nGenStart = Cardinality(NonQuit(entered))
        /\ Len(time_list) = Cardinality(NonQuit(entered))
        /\ Len(emo_list) = Cardinality(NonQuit(entered))
        /\ nPrompt = IF pc = "prompt" THEN Len(entered) + 1 ELSE Len(entered)
        /\ pc = "gen" => Strip(Last(entered)) # QUIT)
  /\ [][pc # "done"]_vars

(* a session ended by a padded quit after an empty line and another line *)
C4_Witness ==
  /\ pc = "done" /\ Len(entered) = 3
  /\ <<>> \in {entered[1], entered[2]}
  /\ entered[3] # QUIT
  /\ results = << <<time_list, emo_list, 2>> >>

(* C5: for max_len >= 2, q_len >= 1 and a_len >= 1, __getitem__ returns    *)
(* token_ids, mask and labels_ids of length max_len each, and the kept     *)
(* question and answer tokens satisfy q_len + a_len <= max_len.            *)
C5_ItemShape ==
  (d_pc # "idle" /\ max_len >= 2 /\ Len(q_in) >= 1 /\ Len(a_in) >= 1) =>
    /\ d_pc = "returned"
    /\ Len(token_ids) = max_len
    /\ Len(mask) = max_len
    /\ Len(labels_ids) = max_len
    /\ q_len = Len(q_toked) /\ a_len = Len(a_toked)
    /\ q_len >= 1 /\ a_len >= 1
    /\ q_len + a_len <= max_len

(* a question longer than max_len was cut and the answer was cut too *)
C5_Witness ==
  /\ d_pc = "returned" /\ max_len >= 2
  /\ Len(q_in) > max_len /\ Len(q_toked) < Len(q_in)
  /\ Len(a_toked) < Len(a_in)
  /\ Len(token_ids) = max_len

====
